---- MODULE Spec2Model ----
(***************************************************************************)
(* Playoff-probability engine of fantasy_football_playoff_calculator.py:   *)
(* the exact enumeration (ProcessWeeklyMatchups, can_skip_scenario,        *)
(* DeterminePlayoffChances), the parallel Monte Carlo engine               *)
(* (parallel_monte_carlo_simulation and its workers) and the dispatch and  *)
(* reporting arithmetic of main.                                           *)
(*                                                                         *)
(* Indices: Python lists are 0-based, TLA+ functions here are 1-based.     *)
(* Team index team_idx = roster_id - 1 in the source is the roster id t    *)
(* here, and column mp = matchupPeriod - 1 of team_matrix is column        *)
(* matchupPeriod here.                                                     *)
(***************************************************************************)
EXTENDS Integers, Sequences, FiniteSets, TLC

VARIABLES
    league,                        \* League record (lines 19-29)
    wins,                          \* Team.wins, by roster id
    fantasy_points_for,            \* Team.fantasy_points_for, by roster id
    playoff_scenarios,             \* Team.playoff_scenarios, by roster id
    guaranteed_playoff_scenarios,  \* Team.guaranteed_playoff_scenarios
    matchups,                      \* list of Matchup records
    team_matrix,                   \* team_matrix[team][week] in {0,1}
    stack,                         \* active calls of ProcessWeeklyMatchups
    pc,                            \* position of the calling thread
    mode,                          \* engine that runs: "exact" / "monte_carlo"
    num_simulations,               \* argument of parallel_monte_carlo_simulation
    cpu_count,                     \* mp.cpu_count()
    workers,                       \* the pool's tasks, one per worker_args entry
    runs,                          \* calls of ProcessWeeklyMatchups made so far
    first_run,                     \* counters as the first exact run left them
    scenarios,                     \* main: scenarios (line 465, then 481)
    algorithm_note                 \* main: the label printed with the table

vars == <<league, wins, fantasy_points_for, playoff_scenarios,
          guaranteed_playoff_scenarios, matchups, team_matrix, stack, pc, mode,
          num_simulations, cpu_count, workers, runs, first_run, scenarios,
          algorithm_note>>

-----------------------------------------------------------------------------
(* Bounds of the model *)

\* the teams of the enumerated leagues: the four of the boundary scenario
TeamNames == <<"A", "B", "C", "D">>
NumTeams == Len(TeamNames)
\* highest base win total of a team
MaxWins == 5
\* base win totals range over MaxWins - WinSpread .. MaxWins
WinSpread == 2
\* last week of the regular season of the enumerated leagues
LastWeek == 9
\* most weeks still to play in an enumerated league
MaxRemainingWeeks == 2
\* most draws requested from the Monte Carlo engine
MaxSimulations == 2
\* most CPUs reported by mp.cpu_count() in the enumerated engine runs
MaxCpus == 2
\* main: half the largest league size, most weeks left, and the largest
\* exponent of the scenario count 2^((teams/2) * weeks) considered
MaxHalfTeams == 6
MaxWeeksLeft == 4
MaxExponent == 24
\* main: most CPUs reported by mp.cpu_count()
MaxCores == 9

-----------------------------------------------------------------------------
(* Program constants *)

\* "if remaining_weeks <= 3" (line 148)
PruneWeeks == 3
\* "num_workers = min(mp.cpu_count(), 8)" (line 324)
WorkerCap == 8
\* default threshold of should_use_monte_carlo (line 244)
Threshold == 100000
\* "min(500000, int(scenarios * 0.1))" (line 473)
SimulationCap == 500000
\* "if scenarios <= 100000" (line 505)
NoteThreshold == 100000

-----------------------------------------------------------------------------
(* Helpers *)

Teams == 1..NumTeams

Min(a, b) == IF a < b THEN a ELSE b

Pow2(k) == 2^k

Zeros == [t \in Teams |-> 0]

RECURSIVE SumOver(_, _, _)
\* sum(row[from:]) for a row of last_col columns: f[from] + ... + f[to]
SumOver(f, from, to) ==
    IF from > to THEN 0 ELSE f[from] + SumOver(f, from + 1, to)

RECURSIVE SumSet(_, _)
\* sum of g[x] over the finite set S
SumSet(g, S) ==
    IF S = {} THEN 0
    ELSE LET x == CHOOSE y \in S : TRUE IN g[x] + SumSet(g, S \ {x})

\* list.sort(key=..., reverse=True) on the team list: descending by key, and
\* Python's sort is stable also under reverse=True, so equal keys keep the
\* original (ascending index) order.  Position (1-based) of team t after it.
RankDesc(key, t) ==
    1 + Cardinality({u \in Teams :
                        key[u] > key[t] \/ (key[u] = key[t] /\ u < t)})

\* the team at position i of the list sorted by key, descending
SortedAt(key, i) == CHOOSE t \in Teams : RankDesc(key, t) = i

-----------------------------------------------------------------------------
(* Exact enumeration: ProcessWeeklyMatchups, can_skip_scenario,             *)
(* DeterminePlayoffChances                                                  *)

\* weeklyMatchups = [t for t in matchups if t.matchup_period == matchupPeriod]
WeeklyMatchups(matchupPeriod) ==
    SelectSeq(matchups, LAMBDA t : t.matchup_period = matchupPeriod)

\* product([0, 1], repeat=m) yields the tuples in lexicographic order, the
\* first position most significant: position idx (1-based) of tuple number k.
CombinationBit(k, m, idx) == (k \div Pow2(m - idx)) % 2

RECURSIVE ApplyCombination(_, _, _, _, _)
\* lines 142-145, from position idx on: the roster's bit is the tuple's bit,
\* the opponent's bit its complement, written in the week's column.
ApplyCombination(matrix, weekly, k, matchupPeriod, idx) ==
    IF idx > Len(weekly) THEN matrix
    ELSE LET win == CombinationBit(k, Len(weekly), idx)
             team == weekly[idx].roster_id
             opp == weekly[idx].opponent_roster_id
             m1 == [matrix EXCEPT ![team][matchupPeriod] = win]
             m2 == [m1 EXCEPT ![opp][matchupPeriod] = 1 - win]
         IN  ApplyCombination(m2, weekly, k, matchupPeriod, idx + 1)

\* team.wins + sum(team_matrix[team_idx][league.current_week-1:])
\* (lines 164 and 349): every column from the current week to the last one.
TotalWins(matrix, t) ==
    wins[t] + SumOver(matrix[t], league.current_week,
                      league.last_week_of_regular_season)

\* can_skip_scenario (lines 158-179)
can_skip_scenario(remaining_weeks, matrix) ==
    LET current_total == [t \in Teams |-> TotalWins(matrix, t)]
        max_possible == [t \in Teams |-> current_total[t] + remaining_weeks]
        spots == league.number_of_playoff_teams
    IN  /\ NumTeams >= spots
        /\ LET cutoff_max == max_possible[SortedAt(max_possible, spots)]
           IN  \E t \in Teams :
                  /\ RankDesc(max_possible, t) <= spots
                  /\ current_total[t] > cutoff_max

\* the pruning test of lines 148-150
Pruned(remaining_weeks, matrix) ==
    remaining_weeks <= PruneWeeks /\ can_skip_scenario(remaining_weeks, matrix)

\* cutoff_wins = team_wins[playoff_spots-1][1] after the descending sort
\* (lines 353-358); only used when playoff_spots <= len(team_wins).
CutoffWins(total) == total[SortedAt(total, league.number_of_playoff_teams)]

\* Qualifies with the comparison made strict
Qualifies_strict(total, t) ==
    /\ league.number_of_playoff_teams <= NumTeams
    /\ total[t] > CutoffWins(total)

\* "if wins >= cutoff_wins" (line 362), under the guard of line 357
Qualifies(total, t) ==
    /\ league.number_of_playoff_teams <= NumTeams
    /\ total[t] >= CutoffWins(total)

\* Guaranteed with the comparison made non-strict
Guaranteed_orequal(total, t) ==
    /\ league.number_of_playoff_teams <= NumTeams
    /\ total[t] >= CutoffWins(total)

\* "if wins > cutoff_wins" (line 364), under the guard of line 357
Guaranteed(total, t) ==
    /\ league.number_of_playoff_teams <= NumTeams
    /\ total[t] > CutoffWins(total)

\* the win totals DeterminePlayoffChances computes from the matrix (line 349)
ScenarioWins(matrix) == [t \in Teams |-> TotalWins(matrix, t)]

\* DeterminePlayoffChances (lines 344-365): the counters after the call
DeterminePlayoffChances(matrix) ==
    LET total == ScenarioWins(matrix)
    IN  /\ playoff_scenarios' =
              [t \in Teams |-> playoff_scenarios[t]
                                 + (IF Qualifies(total, t) THEN 1 ELSE 0)]
        /\ guaranteed_playoff_scenarios' =
              [t \in Teams |-> guaranteed_playoff_scenarios[t]
                                 + (IF Guaranteed(total, t) THEN 1 ELSE 0)]

\* the frame of the innermost active call of ProcessWeeklyMatchups
Top == stack[Len(stack)]

\* remaining_weeks of line 138
RemainingWeeks(matchupPeriod) ==
    league.last_week_of_regular_season - matchupPeriod + 1

\* the matrix after lines 142-145 for the next tuple of the innermost call
NextMatrix ==
    ApplyCombination(team_matrix, WeeklyMatchups(Top.matchupPeriod),
                     Top.combination, Top.matchupPeriod, 1)

\* the innermost call still has a tuple of product(...) to process
HasCombination ==
    /\ pc = "enumerate"
    /\ stack # <<>>
    /\ Top.combination < Pow2(Len(WeeklyMatchups(Top.matchupPeriod)))

\* the stack with the innermost call moved on to its next tuple
Advanced == [stack EXCEPT ![Len(stack)].combination = @ + 1]

-----------------------------------------------------------------------------
(* The leagues, standings and schedules the runs are started on *)

WinValues == (MaxWins - WinSpread)..MaxWins

\* Base standings.  Roster ids are arbitrary labels, so the teams are listed
\* by non-increasing base wins; every pairing of them is scheduled below.
Standings ==
    {w \in [Teams -> WinValues] : \A t \in 1..(NumTeams - 1) : w[t] >= w[t + 1]}

\* points-for of the teams: equal for all, or rising with the roster id
\* (against the order of the base wins)
PointsProfiles == { [t \in Teams |-> 1], [t \in Teams |-> t] }

RECURSIVE Pairings(_)
\* the ways to pair the teams of S for one week (with an odd number of teams
\* one of them has no game): sequences of <<roster, opponent>>
Pairings(S) ==
    IF Cardinality(S) < 2 THEN {<<>>}
    ELSE LET a == CHOOSE x \in S : \A y \in S : x <= y
             paired == UNION { { <<(<<a, b>>)>> \o rest :
                                   rest \in Pairings(S \ {a, b}) } :
                               b \in S \ {a} }
         IN  IF Cardinality(S) % 2 = 0 THEN paired
             ELSE paired \cup Pairings(S \ {a})

RECURSIVE Rotate(_, _)
\* roster id t moved i places round the league
Rotate(t, i) == IF i = 0 THEN t ELSE Rotate((t % NumTeams) + 1, i - 1)

\* Matchup records (lines 31-39) of a schedule that starts in week cw with
\* the pairing first and rotates the pairing from week to week.
Schedule(first, cw) ==
    LET k == Len(first)
        weeks == LastWeek - cw + 1
    IN  [j \in 1..(k * weeks) |->
            LET w == (j - 1) \div k
                i == ((j - 1) % k) + 1
            IN  [matchup_period |-> cw + w,
                 matchup_id |-> i,
                 roster_id |-> Rotate(first[i][1], w),
                 opponent_roster_id |-> Rotate(first[i][2], w)]]

\* main, lines 451-455: a zero matrix with the first team.wins columns of
\* each team's row set to 1
InitialMatrix(w) ==
    [t \in Teams |-> [c \in 1..LastWeek |-> IF c <= w[t] THEN 1 ELSE 0]]

\* main, line 465: (2^(number_of_teams/2))^(weeks left); the enumerated
\* leagues have an even number of teams, so the value is a whole number
ScenarioCount(lg) ==
    Pow2((lg.number_of_teams \div 2)
            * (lg.last_week_of_regular_season - (lg.current_week - 1)))

Leagues ==
    { [current_week |-> cw, last_week_of_regular_season |-> LastWeek,
       number_of_teams |-> NumTeams, number_of_playoff_teams |-> p] :
         cw \in (LastWeek - MaxRemainingWeeks + 1)..LastWeek,
         p \in 1..(NumTeams + 1) }

\* the state of the worker pool before parallel_monte_carlo_simulation runs
NoWorkers == <<>>

\* an engine entry point is about to be called on a freshly built league
InitEngine ==
    /\ league \in Leagues
    /\ wins \in Standings
    /\ fantasy_points_for \in PointsProfiles
    /\ matchups \in {Schedule(first, league.current_week) :
                        first \in Pairings(Teams)}
    /\ playoff_scenarios = Zeros
    /\ guaranteed_playoff_scenarios = Zeros
    /\ team_matrix = InitialMatrix(wins)
    /\ stack = <<>>
    /\ pc = "start"
    /\ workers = NoWorkers
    /\ runs = 0
    /\ first_run = <<Zeros, Zeros>>
    /\ scenarios = ScenarioCount(league)
    /\ algorithm_note = ""

\* the pairing of the roster ids in their listed order: 1-2, 3-4, ...
ListedPairing == [i \in 1..(NumTeams \div 2) |-> <<2 * i - 1, 2 * i>>]

\* Either engine is entered on the league (which of the two main enters is
\* the subject of SpecMain).  The Monte Carlo engine is entered on leagues
\* with one week left and the listed pairing.
Init ==
    /\ InitEngine
    /\ \/ /\ mode = "exact"
          /\ fantasy_points_for = [t \in Teams |-> t]
          /\ num_simulations = 0
          /\ cpu_count = 1
       \/ /\ mode = "monte_carlo"
          /\ league.current_week = LastWeek
          /\ matchups = Schedule(ListedPairing, LastWeek)
          /\ num_simulations \in 0..MaxSimulations
          /\ cpu_count \in 1..MaxCpus

-----------------------------------------------------------------------------
(* Actions of the exact engine *)

\* main, line 487: ProcessWeeklyMatchups(league.current_week, ...)
StartExact ==
    /\ pc = "start"
    /\ mode = "exact"
    /\ pc' = "enumerate"
    /\ stack' = <<[matchupPeriod |-> league.current_week, combination |-> 0]>>
    /\ runs' = runs + 1
    /\ UNCHANGED <<league, wins, fantasy_points_for, playoff_scenarios,
                   guaranteed_playoff_scenarios, matchups, team_matrix, mode,
                   num_simulations, cpu_count, workers, first_run, scenarios,
                   algorithm_note>>

\* lines 140-150: the next tuple is written to the matrix and pruned
SkipScenario ==
    /\ HasCombination
    /\ Pruned(RemainingWeeks(Top.matchupPeriod), NextMatrix)
    /\ team_matrix' = NextMatrix
    /\ stack' = Advanced
    /\ UNCHANGED <<league, wins, fantasy_points_for, playoff_scenarios,
                   guaranteed_playoff_scenarios, matchups, pc, mode,
                   num_simulations, cpu_count, workers, runs, first_run,
                   scenarios, algorithm_note>>

\* lines 140-153: the next tuple of the last week is written and evaluated
EvaluateScenario ==
    /\ HasCombination
    /\ ~Pruned(RemainingWeeks(Top.matchupPeriod), NextMatrix)
    /\ Top.matchupPeriod = league.last_week_of_regular_season
    /\ team_matrix' = NextMatrix
    /\ DeterminePlayoffChances(NextMatrix)
    /\ stack' = Advanced
    /\ UNCHANGED <<league, wins, fantasy_points_for, matchups, pc, mode,
                   num_simulations, cpu_count, workers, runs, first_run,
                   scenarios, algorithm_note>>

\* lines 140-155: the next tuple of an earlier week is written and the
\* following week is entered
Recurse ==
    /\ HasCombination
    /\ ~Pruned(RemainingWeeks(Top.matchupPeriod), NextMatrix)
    /\ Top.matchupPeriod # league.last_week_of_regular_season
    /\ team_matrix' = NextMatrix
    /\ stack' = Append(Advanced, [matchupPeriod |-> Top.matchupPeriod + 1,
                                  combination |-> 0])
    /\ UNCHANGED <<league, wins, fantasy_points_for, playoff_scenarios,
                   guaranteed_playoff_scenarios, matchups, pc, mode,
                   num_simulations, cpu_count, workers, runs, first_run,
                   scenarios, algorithm_note>>

\* the for loop of line 140 is exhausted: the call returns to its caller,
\* the outermost one to main
ReturnFromWeek ==
    /\ pc = "enumerate"
    /\ stack # <<>>
    /\ ~HasCombination
    /\ stack' = SubSeq(stack, 1, Len(stack) - 1)
    /\ pc' = IF Len(stack) = 1 THEN "done" ELSE pc
    /\ first_run' = IF Len(stack) = 1 /\ runs = 1
                    THEN <<playoff_scenarios, guaranteed_playoff_scenarios>>
                    ELSE first_run
    /\ UNCHANGED <<league, wins, fantasy_points_for, playoff_scenarios,
                   guaranteed_playoff_scenarios, matchups, team_matrix, mode,
                   num_simulations, cpu_count, workers, runs, scenarios,
                   algorithm_note>>

ExactNext ==
    \/ StartExact
    \/ SkipScenario
    \/ EvaluateScenario
    \/ Recurse
    \/ ReturnFromWeek

-----------------------------------------------------------------------------
(* Monte Carlo engine: parallel_monte_carlo_simulation and its workers *)

\* remaining_matchups (lines 301-308): matchups from the current week on
RemainingMatchups ==
    SelectSeq(matchups, LAMBDA m : m.matchup_period >= league.current_week)

\* the outcomes random.choice can produce for one draw (lines 266-267):
\* for every remaining matchup, 1 when the roster wins, 0 when the opponent
DrawOutcomes == [1..Len(RemainingMatchups) -> {0, 1}]

\* the team credited with matchup j of a draw (lines 267-271)
Winner(outcome, j) ==
    IF outcome[j] = 1 THEN RemainingMatchups[j].roster_id
    ELSE RemainingMatchups[j].opponent_roster_id

\* sim_wins after lines 263-271
SimWins(outcome) ==
    [t \in Teams |->
        wins[t] + Cardinality({j \in 1..Len(RemainingMatchups) :
                                  Winner(outcome, j) = t})]

\* team_records.sort(key=lambda x: (x[1], x[2]), reverse=True) (lines
\* 274-275): descending by wins, then by points-for, equal keys in list
\* order.  Position (1-based) of team t in the sorted list.
SimRank(sim_wins, t) ==
    1 + Cardinality({u \in Teams :
          \/ sim_wins[u] > sim_wins[t]
          \/ /\ sim_wins[u] = sim_wins[t]
             /\ fantasy_points_for[u] > fantasy_points_for[t]
          \/ /\ sim_wins[u] = sim_wins[t]
             /\ fantasy_points_for[u] = fantasy_points_for[t]
             /\ u < t})

\* playoff_cutoff = min(number_of_playoff_teams, len(team_records)) (line 278)
PlayoffCutoff == Min(league.number_of_playoff_teams, NumTeams)

\* the teams of "for i in range(playoff_cutoff)" (lines 281-283)
SimQualifiers(sim_wins) ==
    {t \in Teams : SimRank(sim_wins, t) <= PlayoffCutoff}

\* cutoff_wins of line 279
SimCutoffWins(sim_wins) ==
    IF PlayoffCutoff > 0
    THEN sim_wins[CHOOSE t \in Teams : SimRank(sim_wins, t) = PlayoffCutoff]
    ELSE 0

\* the teams whose local_guaranteed_scenarios grows (lines 285-286)
SimGuaranteed(sim_wins) ==
    LET cutoff_wins == SimCutoffWins(sim_wins)
    IN  {t \in SimQualifiers(sim_wins) : sim_wins[t] > cutoff_wins}

\* num_workers = min(mp.cpu_count(), 8) (line 324)
NumWorkers == Min(cpu_count, WorkerCap)

\* SimulationsPerWorker with the division rounded up
SimulationsPerWorker_ceil == (num_simulations + NumWorkers - 1) \div NumWorkers

\* simulations_per_worker = num_simulations // num_workers (line 325)
SimulationsPerWorker == num_simulations \div NumWorkers

\* AllReturned weakened to the first result being in (imap-like collection)
AllReturned_first == \E w \in DOMAIN workers : workers[w].returned

\* pool.map has returned (line 335): every task has delivered its result
AllReturned == \A w \in DOMAIN workers : workers[w].returned

\* lines 338-341: the element-wise sum of the results onto the counters
Aggregated(counter, field) ==
    [t \in Teams |->
        counter[t] + SumSet([w \in DOMAIN workers |-> workers[w][field][t]],
                            DOMAIN workers)]

\* lines 295-335, up to the submission of the tasks: the counters are reset
\* and one task per worker is created with its private counters at zero
StartMonteCarlo ==
    /\ pc = "start"
    /\ mode = "monte_carlo"
    /\ playoff_scenarios' = Zeros
    /\ guaranteed_playoff_scenarios' = Zeros
    /\ workers' = [w \in 1..NumWorkers |->
                      [todo |-> SimulationsPerWorker,
                       draws |-> 0,
                       local_playoff_scenarios |-> Zeros,
                       local_guaranteed_scenarios |-> Zeros,
                       returned |-> FALSE]]
    /\ pc' = "pool"
    /\ UNCHANGED <<league, wins, fantasy_points_for, matchups, team_matrix,
                   stack, mode, num_simulations, cpu_count, runs, first_run,
                   scenarios, algorithm_note>>

\* the teams whose private counter `field` one draw increments
DrawHits(sim_wins, field) ==
    IF field = "local_playoff_scenarios" THEN SimQualifiers(sim_wins)
    ELSE SimGuaranteed(sim_wins)

RECURSIVE Tally(_, _, _)
\* the private counter `field` after the draws outcomes[i..] of a task
Tally(outcomes, i, field) ==
    IF i > Len(outcomes) THEN Zeros
    ELSE LET rest == Tally(outcomes, i + 1, field)
             now == DrawHits(SimWins(outcomes[i]), field)
         IN  [t \in Teams |-> rest[t] + (IF t \in now THEN 1 ELSE 0)]

\* parallel_monte_carlo_worker (lines 251-288), run by task w in a process of
\* its own: simulations_per_worker draws on private counters, which it
\* returns to the pool
Worker(w) ==
    /\ pc = "pool"
    /\ ~workers[w].returned
    /\ \E outcomes \in [1..workers[w].todo -> DrawOutcomes] :
          workers' = [workers EXCEPT
              ![w].todo = 0,
              ![w].draws = Len(outcomes),
              ![w].local_playoff_scenarios = Tally(outcomes, 1, "local_playoff_scenarios"),
              ![w].local_guaranteed_scenarios =
                  Tally(outcomes, 1, "local_guaranteed_scenarios"),
              ![w].returned = TRUE]
    /\ UNCHANGED <<league, wins, fantasy_points_for, playoff_scenarios,
                   guaranteed_playoff_scenarios, matchups, team_matrix, stack,
                   pc, mode, num_simulations, cpu_count, runs, first_run,
                   scenarios, algorithm_note>>

\* lines 335-341: pool.map returns once every task has, and the results are
\* summed onto the Team counters
Aggregate ==
    /\ pc = "pool"
    /\ AllReturned
    /\ playoff_scenarios' =
          Aggregated(playoff_scenarios, "local_playoff_scenarios")
    /\ guaranteed_playoff_scenarios' =
          Aggregated(guaranteed_playoff_scenarios, "local_guaranteed_scenarios")
    /\ pc' = "done"
    /\ UNCHANGED <<league, wins, fantasy_points_for, matchups, team_matrix,
                   stack, mode, num_simulations, cpu_count, workers, runs,
                   first_run, scenarios, algorithm_note>>

MonteCarloNext ==
    \/ StartMonteCarlo
    \/ \E w \in DOMAIN workers : Worker(w)
    \/ Aggregate

Next == ExactNext \/ MonteCarloNext

Spec == Init /\ [][Next]_vars

-----------------------------------------------------------------------------
(* A second exact run on the objects the first one left behind *)

\* ProcessWeeklyMatchups(league.current_week, teams, matchups, league,
\* team_matrix) called again with the same arguments: the function resets
\* neither the counters nor the matrix (lines 126-155)
Rerun ==
    /\ pc = "done"
    /\ mode = "exact"
    /\ runs = 1
    /\ pc' = "enumerate"
    /\ stack' = <<[matchupPeriod |-> league.current_week, combination |-> 0]>>
    /\ runs' = runs + 1
    /\ UNCHANGED <<league, wins, fantasy_points_for, playoff_scenarios,
                   guaranteed_playoff_scenarios, matchups, team_matrix, mode,
                   num_simulations, cpu_count, workers, first_run, scenarios,
                   algorithm_note>>

InitRerun == Init /\ mode = "exact"

NextRerun == ExactNext \/ Rerun

SpecRerun == InitRerun /\ [][NextRerun]_vars

-----------------------------------------------------------------------------
(* main, lines 457-510: choice of the engine, denominator and label.  These  *)
(* lines read the league's size only; the standings, the schedule and the   *)
(* counters of such leagues are not represented in this specification.      *)

\* leagues of 2, 4, ... teams with up to MaxWeeksLeft weeks to play
MainLeagues ==
    { [current_week |-> LastWeek - left + 1,
       last_week_of_regular_season |-> LastWeek,
       number_of_teams |-> 2 * half,
       number_of_playoff_teams |-> 1] :
         half \in 1..MaxHalfTeams, left \in 1..MaxWeeksLeft }

InitMain ==
    /\ league \in {lg \in MainLeagues :
          (lg.number_of_teams \div 2)
             * (lg.last_week_of_regular_season - (lg.current_week - 1))
          <= MaxExponent}
    /\ cpu_count \in 1..MaxCores
    /\ wins = Zeros
    /\ fantasy_points_for = Zeros
    /\ playoff_scenarios = Zeros
    /\ guaranteed_playoff_scenarios = Zeros
    /\ matchups = <<>>
    /\ team_matrix = InitialMatrix(Zeros)
    /\ stack = <<>>
    /\ pc = "main"
    /\ mode = "none"
    /\ num_simulations = 0
    /\ workers = NoWorkers
    /\ runs = 0
    /\ first_run = <<Zeros, Zeros>>
    /\ scenarios = 0
    /\ algorithm_note = ""

\* should_use_monte_carlo (lines 244-248), called with the default threshold
should_use_monte_carlo(n) == n > Threshold

\* num_simulations = min(500000, int(scenarios * 0.1)) (line 473); scenarios
\* is a power of two, so the float product truncates to scenarios div 10
NumSimulations(n) == Min(SimulationCap, n \div 10)

\* the label of lines 505-508, chosen from the value scenarios then holds
AlgorithmNote(n) ==
    IF n <= NoteThreshold THEN "Exact calculation"
    ELSE "Monte Carlo approximation"

\* line 465
MainCountScenarios ==
    /\ pc = "main"
    /\ scenarios' = ScenarioCount(league)
    /\ pc' = "choose"
    /\ UNCHANGED <<league, wins, fantasy_points_for, playoff_scenarios,
                   guaranteed_playoff_scenarios, matchups, team_matrix, stack,
                   mode, num_simulations, cpu_count, workers, runs, first_run,
                   algorithm_note>>

\* lines 471-483: the Monte Carlo engine runs; every task performs
\* simulations_per_worker draws (lines 325-335), and scenarios becomes the
\* requested number of draws (line 481)
MainMonteCarlo ==
    /\ pc = "choose"
    /\ should_use_monte_carlo(scenarios)
    /\ mode' = "monte_carlo"
    /\ num_simulations' = NumSimulations(scenarios)
    /\ workers' = [w \in 1..NumWorkers |->
                      [todo |-> 0,
                       draws |-> NumSimulations(scenarios) \div NumWorkers,
                       local_playoff_scenarios |-> Zeros,
                       local_guaranteed_scenarios |-> Zeros,
                       returned |-> TRUE]]
    /\ scenarios' = NumSimulations(scenarios)
    /\ pc' = "percentages"
    /\ UNCHANGED <<league, wins, fantasy_points_for, playoff_scenarios,
                   guaranteed_playoff_scenarios, matchups, team_matrix, stack,
                   cpu_count, runs, first_run, algorithm_note>>

\* lines 485-488: the exact engine runs
MainExact ==
    /\ pc = "choose"
    /\ ~should_use_monte_carlo(scenarios)
    /\ mode' = "exact"
    /\ runs' = runs + 1
    /\ pc' = "percentages"
    /\ UNCHANGED <<league, wins, fantasy_points_for, playoff_scenarios,
                   guaranteed_playoff_scenarios, matchups, team_matrix, stack,
                   num_simulations, cpu_count, workers, first_run, scenarios,
                   algorithm_note>>

\* lines 490-510: the percentages are taken over scenarios and the table is
\* printed under the label
MainReport ==
    /\ pc = "percentages"
    /\ algorithm_note' = AlgorithmNote(scenarios)
    /\ pc' = "reported"
    /\ UNCHANGED <<league, wins, fantasy_points_for, playoff_scenarios,
                   guaranteed_playoff_scenarios, matchups, team_matrix, stack,
                   mode, num_simulations, cpu_count, workers, runs, first_run,
                   scenarios>>

NextMain == MainCountScenarios \/ MainMonteCarlo \/ MainExact \/ MainReport

SpecMain == InitMain /\ [][NextMain]_vars

-----------------------------------------------------------------------------
(* Reference quantities used by the properties below *)

\* every way to pick the winners of all remaining matchups: 1 for the
\* roster, 0 for the opponent
WinnerAssignments == [1..Len(matchups) -> {0, 1}]

RECURSIVE WriteOutcome(_, _, _)
\* the matrix with the bits of matchups j.. of a complete assignment written
\* in the columns of their weeks
WriteOutcome(matrix, outcome, j) ==
    IF j > Len(matchups) THEN matrix
    ELSE LET m == matchups[j]
             m1 == [matrix EXCEPT
                       ![m.roster_id][m.matchup_period] = outcome[j]]
             m2 == [m1 EXCEPT
                       ![m.opponent_roster_id][m.matchup_period] =
                           1 - outcome[j]]
         IN  WriteOutcome(m2, outcome, j + 1)

\* the matrix of a complete scenario, built on the matrix main prepares
ScenarioMatrix(outcome) == WriteOutcome(InitialMatrix(wins), outcome, 1)

\* in how many of all complete scenarios DeterminePlayoffChances would
\* count team t as qualifying / as guaranteed
UnprunedPlayoff(t) ==
    Cardinality({o \in WinnerAssignments :
                    Qualifies(ScenarioWins(ScenarioMatrix(o)), t)})

UnprunedGuaranteed(t) ==
    Cardinality({o \in WinnerAssignments :
                    Guaranteed(ScenarioWins(ScenarioMatrix(o)), t)})

\* in how many of all equally likely draws the Monte Carlo resolution counts
\* team t as qualifying
DrawsQualifying(t) ==
    Cardinality({o \in DrawOutcomes : t \in SimQualifiers(SimWins(o))})

ExactDone == pc = "done" /\ mode = "exact"

-----------------------------------------------------------------------------
(* Properties *)

\* C1: pruning equivalence.  When playoff_spots <= team count, the exact
\* enumeration with the can_skip_scenario check ends with the counters that
\* evaluating every complete winner assignment with DeterminePlayoffChances
\* gives.
C1_PruningEquivalence ==
    (ExactDone /\ league.number_of_playoff_teams <= NumTeams) =>
        \A t \in Teams :
            /\ playoff_scenarios[t] = UnprunedPlayoff(t)
            /\ guaranteed_playoff_scenarios[t] = UnprunedGuaranteed(t)

\* the league of the boundary scenario: A, B, C, D with 5, 5, 4, 3 wins, two
\* playoff spots, one week left with A vs B and C vs D
BoundaryScenario ==
    /\ mode = "exact"
    /\ wins = <<5, 5, 4, 3>>
    /\ league.number_of_playoff_teams = 2
    /\ league.current_week = league.last_week_of_regular_season
    /\ {<<matchups[j].roster_id, matchups[j].opponent_roster_id>> :
            j \in 1..Len(matchups)} = {<<1, 2>>, <<3, 4>>}

\* C2 as stated: on the boundary scenario the exact enumeration over the 4
\* scenarios ends with A and B qualifying in 3 and guaranteed in 2, C
\* qualifying in 2 and guaranteed in 0, and D qualifying in 0.
C2_BoundaryAsStated ==
    (BoundaryScenario /\ pc = "done") =>
        /\ scenarios = 4
        /\ playoff_scenarios = <<3, 3, 2, 0>>
        /\ guaranteed_playoff_scenarios[1] = 2
        /\ guaranteed_playoff_scenarios[2] = 2
        /\ guaranteed_playoff_scenarios[3] = 0

\* C2 amended: on the boundary scenario the exact enumeration over the 4
\* scenarios ends with A and B qualifying in all 4 and guaranteed in 2, C
\* qualifying in 2 and guaranteed in 0, and D qualifying in 0.
C2_BoundaryScenario ==
    (BoundaryScenario /\ pc = "done") =>
        /\ scenarios = 4
        /\ playoff_scenarios = <<4, 4, 2, 0>>
        /\ guaranteed_playoff_scenarios[1] = 2
        /\ guaranteed_playoff_scenarios[2] = 2
        /\ guaranteed_playoff_scenarios[3] = 0

\* the boundary scenario has been enumerated to its end
C2_Witness == BoundaryScenario /\ pc = "done"

\* C3: Monte Carlo agrees with the exact result in expectation.  Over all
\* equally likely winner assignments, the fraction the Monte Carlo
\* resolution counts a team as qualifying equals the team's exact
\* playoff_scenarios / total scenarios (cross-multiplied).
C3_MonteCarloMatchesExact ==
    (ExactDone /\ league.number_of_playoff_teams <= NumTeams) =>
        \A t \in Teams :
            DrawsQualifying(t) * scenarios =
                playoff_scenarios[t] * Cardinality(DrawOutcomes)

\* the label and the engine of a finished main
MonteCarloLabel == algorithm_note = "Monte Carlo approximation"

ExactLabel == algorithm_note = "Exact calculation"

\* C4: the mode reported is the mode that ran.  When main has printed the
\* table, it is labelled a Monte Carlo approximation exactly when the Monte
\* Carlo engine ran, and an exact calculation exactly when the exact
\* enumeration ran.
C4_ReportedModeIsUsedMode ==
    pc = "reported" =>
        /\ MonteCarloLabel <=> mode = "monte_carlo"
        /\ ExactLabel <=> mode = "exact"

\* the draws the tasks of the pool performed, all together
DrawsPerformed ==
    SumSet([w \in DOMAIN workers |-> workers[w].draws], DOMAIN workers)

\* C5: in Monte Carlo mode the denominator of the percentages (scenarios,
\* line 481) is the number of draws the workers performed, all together.
C5_DenominatorIsDrawsPerformed ==
    (pc \in {"percentages", "reported"} /\ mode = "monte_carlo") =>
        DrawsPerformed = scenarios

\* C6: with more playoff spots than teams no counter changes and the run
\* does not complete normally (it ends in a configuration error instead).
C6_DegenerateConfigurationRejected ==
    league.number_of_playoff_teams > NumTeams =>
        /\ playoff_scenarios = Zeros
        /\ guaranteed_playoff_scenarios = Zeros
        /\ pc # "done"

\* the denominator main divides the counters by: the scenario count of line
\* 465 in exact mode, the number of draws (line 481) in Monte Carlo mode
Denominator == IF mode = "monte_carlo" THEN num_simulations ELSE scenarios

\* C7: completeness.  At every point of a run, exact or Monte Carlo, every
\* team has guaranteed_playoff_scenarios <= playoff_scenarios <= the
\* denominator main uses for the run.
C7_Completeness ==
    \A t \in Teams :
        /\ guaranteed_playoff_scenarios[t] <= playoff_scenarios[t]
        /\ playoff_scenarios[t] <= Denominator

\* a finished run in which one team qualified in every scenario and another
\* was guaranteed in some but not all of those it qualified in
C7_Witness ==
    /\ pc = "done"
    /\ \E t \in Teams : playoff_scenarios[t] = Denominator /\ Denominator > 1
    /\ \E t \in Teams :
          /\ 0 < guaranteed_playoff_scenarios[t]
          /\ guaranteed_playoff_scenarios[t] < playoff_scenarios[t]

\* the teams whose playoff_scenarios the step increments
Incremented ==
    {t \in Teams : playoff_scenarios'[t] = playoff_scenarios[t] + 1}

\* win totals of the scenario a step has written to the matrix
WrittenWins == ScenarioWins(team_matrix')

\* c is the win total of the team in the last playoff place: fewer than
\* number_of_playoff_teams teams have more wins, at least that many have c
\* or more
IsCutoff(total, c) ==
    /\ Cardinality({t \in Teams : total[t] > c}) < league.number_of_playoff_teams
    /\ Cardinality({t \in Teams : total[t] >= c}) >= league.number_of_playoff_teams

\* C8: conservation.  Every call of DeterminePlayoffChances that counts
\* (playoff spots <= teams) increments playoff_scenarios by one for at least
\* number_of_playoff_teams teams and leaves the others; for exactly that many
\* when no team below the boundary shares the cutoff win total; and never
\* for a team with fewer wins than the cutoff.
C8_Conservation ==
    [][(EvaluateScenario /\ league.number_of_playoff_teams <= NumTeams) =>
        /\ Cardinality(Incremented) >= league.number_of_playoff_teams
        /\ \A t \in Teams \ Incremented :
              playoff_scenarios'[t] = playoff_scenarios[t]
        /\ \E c \in {WrittenWins[t] : t \in Teams} :
              /\ IsCutoff(WrittenWins, c)
              /\ \A t \in Incremented : WrittenWins[t] >= c
              /\ Cardinality({t \in Teams : WrittenWins[t] >= c})
                    = league.number_of_playoff_teams
                 => Cardinality(Incremented) = league.number_of_playoff_teams
      ]_vars

\* one scenario has been evaluated so far, and a tie at the cutoff made it
\* count more teams than there are playoff spots
C8_Witness ==
    /\ pc = "enumerate"
    /\ league.number_of_playoff_teams <= NumTeams
    /\ \A t \in Teams : playoff_scenarios[t] <= 1
    /\ Cardinality({t \in Teams : playoff_scenarios[t] = 1})
          > league.number_of_playoff_teams

\* C9: parallel aggregation.  While the tasks of the pool run, the Team
\* counters stay as the reset left them (no task writes them); the reduction
\* has run only when every task has returned, and then each Team counter is
\* the sum of the tasks' private counters.
C9_ParallelAggregation ==
    mode = "monte_carlo" =>
        /\ pc = "pool" =>
              /\ playoff_scenarios = Zeros
              /\ guaranteed_playoff_scenarios = Zeros
        /\ pc = "done" =>
              /\ \A w \in DOMAIN workers : workers[w].returned
              /\ \A t \in Teams :
                    /\ playoff_scenarios[t] =
                          SumSet([w \in DOMAIN workers |->
                                     workers[w].local_playoff_scenarios[t]],
                                 DOMAIN workers)
                    /\ guaranteed_playoff_scenarios[t] =
                          SumSet([w \in DOMAIN workers |->
                                     workers[w].local_guaranteed_scenarios[t]],
                                 DOMAIN workers)

\* two tasks have returned different private counters and the reduction has
\* run
C9_Witness ==
    /\ mode = "monte_carlo"
    /\ pc = "done"
    /\ Len(workers) > 1
    /\ workers[1].local_playoff_scenarios # workers[2].local_playoff_scenarios
    /\ \E t \in Teams : playoff_scenarios[t] > 1

\* C10: determinism and reset.  A second run of ProcessWeeklyMatchups on the
\* same teams, schedule and matrix ends with the counters the first run
\* ended with.
C10_SecondRunSameCounters ==
    (pc = "done" /\ runs = 2) =>
        <<playoff_scenarios, guaranteed_playoff_scenarios>> = first_run

\* The total of team t counted over the weeks assigned on the current branch
\* only: the base wins and the bits of the starting week up to the week
\* being processed.
BranchWins(matrix, t) ==
    wins[t] + SumOver(matrix[t], league.current_week, Top.matchupPeriod)

\* C11: read discipline of the shared matrix.  Whenever a level of the exact
\* enumeration has written its week's outcomes, the win total the code
\* computes for every team counts only the bits of the weeks assigned on the
\* current branch: no bit left in a later week's column by a previously
\* explored sibling branch is included.
C11_ReadsOnlyAssignedWeeks ==
    HasCombination =>
        \A t \in Teams : TotalWins(NextMatrix, t) = BranchWins(NextMatrix, t)

====
